---- MODULE Spec2Model ----
(***************************************************************************)
(* A model of lru::LRUCache<Key, Value, NullLock> (src/lru/LRUCache.hpp).  *)
(*                                                                         *)
(* keys_ is the recency list (head first), cache_ the key index, and       *)
(* maxSize_, elasticity_, cacheSize_ the size_t members, kept modulo       *)
(* 2^SizeBits.  A list iterator is modelled by the key carried by the node *)
(* it points at.  Every public operation is one action; the callbacks are  *)
(* the environment: each invocation may return or raise.                   *)
(*                                                                         *)
(* keys_.back() / pop_back() / front() on an empty list is undefined       *)
(* behaviour: the model chooses between the process dying (health =        *)
(* "crashed", no further step) and the operation going on over garbage     *)
(* (health = "ub" when it returns).                                        *)
(***************************************************************************)
EXTENDS Integers, Sequences, FiniteSets, TLC

\* ---------------------------------------------------------------- bounds
NumKeys == 3
NumValues == 1
MaxWeight == 2
MaxLimit == 2
MaxSlack == 1
SizeBits == 5
MaxTotal == 4
NumThreads == 2
OpsPerThread == 2

Keys == 1..NumKeys
Values == 1..NumValues
Weights == 0..MaxWeight
Limits == 0..MaxLimit
Slacks == 0..MaxSlack
Threads == 1..NumThreads
Modulus == 2^SizeBits

\* size_t arithmetic
Add(a, b) == (a + b) % Modulus
Sub(a, b) == (a - b + Modulus) % Modulus

VARIABLES
    keys_,            \* list_type keys_: sequence of KeyValuePair, head first
    cache_,           \* Map cache_: key -> the list node it refers to
    maxSize_,
    elasticity_,
    cacheSize_,
    removeCallback_,  \* TRUE when a remove callback is configured
    insertCallback_,  \* TRUE when an insert callback is configured
    health,           \* how the last operation left the process: "ok" | "ub" | "crashed"
    op,               \* the last public operation and its arguments
    result,           \* how it ended
    evicted,          \* the entries the last operation's prune() erased, in order
    cbLog,            \* the callback invocations of the last operation
    ranPastEnd,       \* the last operation's eviction loop took a turn on an empty list
    lock_,            \* Lock lock_: the thread holding it, 0 when free
    threads,          \* each thread's place in the operation it is running
    commitOrder,      \* present keys by most recent use, most recent first
    trace             \* a scripted run's calls, the constructor first; <<>> otherwise

vars == <<keys_, cache_, maxSize_, elasticity_, cacheSize_, removeCallback_,
          insertCallback_, health, op, result, evicted, cbLog, ranPastEnd,
          lock_, threads, commitOrder, trace>>

\* ------------------------------------------------------------- data model
KeyValuePair(k, v, s) == [key |-> k, value |-> v, size |-> s]

\* what a read through an iterator of an empty list yields
Garbage == [key |-> 0, value |-> 0, size |-> 0]

NoKeys == [k \in {} |-> k]

RECURSIVE SumSizes(_)
SumSizes(l) == IF l = <<>> THEN 0 ELSE l[1].size + SumSizes(Tail(l))

KeySeq(l) == [i \in 1..Len(l) |-> l[i].key]

KeySet(l) == {l[i].key : i \in 1..Len(l)}

\* the position of the node an iterator refers to
NodeAt(l, h) == CHOOSE i \in 1..Len(l) : l[i].key = h

Without(l, i) == SubSeq(l, 1, i - 1) \o SubSeq(l, i + 1, Len(l))

Restrict(f, S) == [x \in S |-> f[x]]

\* size(), empty(), freeSize()
size == cacheSize_
empty == DOMAIN cache_ = {}
freeSize == Sub(Add(maxSize_, elasticity_), cacheSize_)
getMaxAllowedSize == Add(maxSize_, elasticity_)

\* ------------------------------------------------------------ the handlers
\* The state a handler works on while it runs.
Frame(l, c, n) ==
    [keys |-> l, cache |-> c, cacheSize |-> n, evicted |-> <<>>,
     cbLog |-> <<>>, res |-> "ok", health |-> "ok", pastEnd |-> FALSE]

Call(cb, e) == [cb |-> cb, entry |-> e]

\* keys_.splice(keys_.begin(), keys_, it)
splice(l, i) == <<l[i]>> \o Without(l, i)

\* prune(): the early return
pruneReturnsEarly(n, maxSize, elasticity) ==
    LET maxAllowed == Add(maxSize, elasticity)
    IN  maxSize = 0 \/ n < maxAllowed

\* mutant: the pass goes on until currentWeight is below the soft limit
pruneContinues_belowLimit(n, maxSize) == n >= maxSize

\* prune(): the loop condition
pruneContinues(n, maxSize) == n > maxSize

\* mutant: the pass takes the head of the list
backIndex_front(l) == 1

\* prune(): the entry the loop takes, keys_.back()
backIndex(l) == Len(l)

\* mutant: the evicted entry leaves the list and stays in the index
pruneErase_keepsIndex(c, k) == c

\* prune(): cache_.erase(keys_.back().key)
pruneErase(c, k) == Restrict(c, DOMAIN c \ {k})

\* prune(): the eviction loop.  failAt is the invocation of the remove
\* callback that raises (0: none does).  res = "EmptyList" when an iteration
\* finds the list empty.
RECURSIVE pruneLoop(_, _, _, _)
pruneLoop(f, maxSize, hasCb, failAt) ==
    IF ~pruneContinues(f.cacheSize, maxSize) THEN f
    ELSE IF f.keys = <<>> THEN [f EXCEPT !.res = "EmptyList"]
    ELSE
        LET i == backIndex(f.keys)
            e == f.keys[i]
            called == IF hasCb THEN Append(f.cbLog, Call("remove", e)) ELSE f.cbLog
        IN  IF hasCb /\ Len(called) = failAt
            THEN [f EXCEPT !.cbLog = called, !.res = "CallBackFailed"]
            ELSE pruneLoop(
                    [f EXCEPT !.cbLog = called,
                              !.cache = pruneErase(f.cache, e.key),
                              !.keys = Without(f.keys, i),
                              !.evicted = Append(f.evicted, e),
                              !.cacheSize = Sub(f.cacheSize, e.size)],
                    maxSize, hasCb, failAt)

\* prune() up to the point where the pass is defined
pruneDefined(f, maxSize, elasticity, hasCb, failAt) ==
    IF pruneReturnsEarly(f.cacheSize, maxSize, elasticity) THEN f
    ELSE pruneLoop(f, maxSize, hasCb, failAt)

\* prune().  junk decides what the pass over an empty list does: the process
\* dies (junk.crash), or the loop over garbage weights ends with cacheSize_ =
\* junk.left, a value that makes the loop condition false.
prune(f, maxSize, elasticity, hasCb, failAt, junk) ==
    LET g == pruneDefined(f, maxSize, elasticity, hasCb, failAt)
    IN  IF g.res # "EmptyList" THEN g
        ELSE IF junk.crash
        THEN [g EXCEPT !.res = "crashed", !.health = "crashed", !.pastEnd = TRUE]
        ELSE [g EXCEPT !.res = "ok", !.health = "ub", !.cacheSize = junk.left,
                       !.pastEnd = TRUE,
                       !.cbLog = IF hasCb THEN Append(g.cbLog, Call("remove", Garbage))
                                  ELSE g.cbLog]

\* insert(), the branch for a key already in the index
insertExisting(k, v, s) ==
    LET i == NodeAt(keys_, cache_[k])
        prev_size == keys_[i].size
        size_diff == Sub(s, prev_size)
    IN  IF size_diff > Sub(Add(maxSize_, elasticity_), cacheSize_)
        THEN [Frame(keys_, cache_, cacheSize_) EXCEPT !.res = "TooLargeSize"]
        ELSE Frame(splice([keys_ EXCEPT ![i] = KeyValuePair(keys_[i].key, v, s)], i),
                   cache_,
                   Add(cacheSize_, size_diff))

\* mutant: a new key is taken whatever its weight
insertNew_noCheck(k, v, s) ==
    Frame(<<KeyValuePair(k, v, s)>> \o keys_,
          [x \in DOMAIN cache_ \cup {k} |-> IF x = k THEN k ELSE cache_[x]],
          Add(cacheSize_, s))

\* insert(), the branch for a new key
insertNew(k, v, s) ==
    IF s > Add(maxSize_, elasticity_)
    THEN [Frame(keys_, cache_, cacheSize_) EXCEPT !.res = "TooLargeSize"]
    ELSE Frame(<<KeyValuePair(k, v, s)>> \o keys_,
               [x \in DOMAIN cache_ \cup {k} |-> IF x = k THEN k ELSE cache_[x]],
               Add(cacheSize_, s))

\* insert(): the insert callback on keys_.front().  dies: the read of the
\* empty list's front kills the process.
insertCallback(f, raises, dies) ==
    IF ~insertCallback_ THEN f
    ELSE IF f.keys = <<>>
    THEN IF dies
         THEN [f EXCEPT !.res = "crashed", !.health = "crashed"]
         ELSE [f EXCEPT !.cbLog = Append(f.cbLog, Call("insert", Garbage)),
                        !.health = "ub",
                        !.res = IF raises THEN "CallBackFailed" ELSE "ok"]
    ELSE [f EXCEPT !.cbLog = Append(f.cbLog, Call("insert", f.keys[1])),
                   !.res = IF raises THEN "CallBackFailed" ELSE "ok"]

\* insert(): lines 146-164, the check and the mutation
insertBody(k, v, s) ==
    IF k \in DOMAIN cache_ THEN insertExisting(k, v, s) ELSE insertNew(k, v, s)

\* mutant: an eviction pass whose remove callback raises is rolled back
insert_rollsBack(k, v, s, failAt, raises, junk, dies) ==
    LET m == insertBody(k, v, s)
    IN  IF m.res = "TooLargeSize" THEN m
        ELSE LET p == prune(m, maxSize_, elasticity_, removeCallback_, failAt, junk)
             IN  IF p.res = "CallBackFailed"
                 THEN [m EXCEPT !.res = "CallBackFailed", !.cbLog = p.cbLog]
                 ELSE IF p.res # "ok" THEN p ELSE insertCallback(p, raises, dies)

\* insert(k, v, s)
insert(k, v, s, failAt, raises, junk, dies) ==
    LET m == insertBody(k, v, s)
    IN  IF m.res = "TooLargeSize" THEN m
        ELSE LET p == prune(m, maxSize_, elasticity_, removeCallback_, failAt, junk)
             IN  IF p.res # "ok" THEN p ELSE insertCallback(p, raises, dies)

\* mutant: the new limits are stored and no eviction pass runs
updateSize_noPrune(maxSize, elasticity, failAt, junk) ==
    Frame(keys_, cache_, cacheSize_)

\* updateSize(maxSize, elasticity)
updateSize(maxSize, elasticity, failAt, junk) ==
    prune(Frame(keys_, cache_, cacheSize_), maxSize, elasticity, removeCallback_, failAt, junk)

\* mutant: the entry found is not moved to the head
get_noSplice(k) ==
    IF k \notin DOMAIN cache_
    THEN [Frame(keys_, cache_, cacheSize_) EXCEPT !.res = "KeyNotFound"]
    ELSE Frame(keys_, cache_, cacheSize_)

\* get(k)
get(k) ==
    IF k \notin DOMAIN cache_
    THEN [Frame(keys_, cache_, cacheSize_) EXCEPT !.res = "KeyNotFound"]
    ELSE Frame(splice(keys_, NodeAt(keys_, cache_[k])), cache_, cacheSize_)

\* bool getCopy(k, v)
getCopyInto(k) ==
    IF k \notin DOMAIN cache_
    THEN [Frame(keys_, cache_, cacheSize_) EXCEPT !.res = "false"]
    ELSE [Frame(splice(keys_, NodeAt(keys_, cache_[k])), cache_, cacheSize_)
            EXCEPT !.res = "true"]

\* mutant: the entry goes and its weight stays counted
remove_keepsWeight(k, raises) ==
    IF k \notin DOMAIN cache_
    THEN [Frame(keys_, cache_, cacheSize_) EXCEPT !.res = "false"]
    ELSE
        LET i == NodeAt(keys_, cache_[k])
            called == IF removeCallback_ THEN <<Call("remove", keys_[i])>> ELSE <<>>
        IN  IF removeCallback_ /\ raises
            THEN [Frame(keys_, cache_, cacheSize_)
                    EXCEPT !.cbLog = called, !.res = "CallBackFailed"]
            ELSE [Frame(Without(keys_, i),
                        Restrict(cache_, DOMAIN cache_ \ {k}),
                        cacheSize_)
                    EXCEPT !.cbLog = called, !.res = "true"]

\* mutant: the entry is erased before the remove callback is invoked
remove_eraseFirst(k, raises) ==
    IF k \notin DOMAIN cache_
    THEN [Frame(keys_, cache_, cacheSize_) EXCEPT !.res = "false"]
    ELSE
        LET i == NodeAt(keys_, cache_[k])
            called == IF removeCallback_ THEN <<Call("remove", keys_[i])>> ELSE <<>>
        IN  [Frame(Without(keys_, i),
                   Restrict(cache_, DOMAIN cache_ \ {k}),
                   Sub(cacheSize_, keys_[i].size))
                EXCEPT !.cbLog = called,
                       !.res = IF removeCallback_ /\ raises THEN "CallBackFailed"
                               ELSE "true"]

\* remove(k)
remove(k, raises) ==
    IF k \notin DOMAIN cache_
    THEN [Frame(keys_, cache_, cacheSize_) EXCEPT !.res = "false"]
    ELSE
        LET i == NodeAt(keys_, cache_[k])
            called == IF removeCallback_ THEN <<Call("remove", keys_[i])>> ELSE <<>>
        IN  IF removeCallback_ /\ raises
            THEN [Frame(keys_, cache_, cacheSize_)
                    EXCEPT !.cbLog = called, !.res = "CallBackFailed"]
            ELSE [Frame(Without(keys_, i),
                        Restrict(cache_, DOMAIN cache_ \ {k}),
                        Sub(cacheSize_, keys_[i].size))
                    EXCEPT !.cbLog = called, !.res = "true"]

\* mutant: the key looked up is moved to the head, as get() does
contains_splice(k) ==
    IF k \notin DOMAIN cache_
    THEN [Frame(keys_, cache_, cacheSize_) EXCEPT !.res = "false"]
    ELSE [Frame(splice(keys_, NodeAt(keys_, cache_[k])), cache_, cacheSize_)
            EXCEPT !.res = "true"]

\* contains(k)
contains(k) ==
    [Frame(keys_, cache_, cacheSize_)
        EXCEPT !.res = IF k \in DOMAIN cache_ THEN "true" ELSE "false"]

\* clear()
clear == Frame(<<>>, NoKeys, cacheSize_)

\* ------------------------------------------------------------- the actions
Touch(o, k) == <<k>> \o SelectSeq(o, LAMBDA x : x # k)

Present(o, c) == SelectSeq(o, LAMBDA x : x \in DOMAIN c)

Fetches == {"get", "getCopy", "getCopyInto"}

\* a use in the sense "the operation succeeded"
SuccessfulUse(name, f) ==
    name \in Fetches \cup {"insert"} /\ f.res \in {"ok", "true"}

\* a use in the sense "the operation got past its checks and touched the list"
CommittedUse(name, f) ==
    \/ name \in Fetches /\ f.res \in {"ok", "true"}
    \/ name = "insert" /\ f.res # "TooLargeSize"

\* the handler's frame f becomes the state
Return(name, k, v, s, f) ==
    /\ keys_' = f.keys
    /\ cache_' = f.cache
    /\ cacheSize_' = f.cacheSize
    /\ health' = f.health
    /\ result' = f.res
    /\ evicted' = f.evicted
    /\ cbLog' = f.cbLog
    /\ ranPastEnd' = f.pastEnd
    /\ op' = [name |-> name, key |-> k, value |-> v, size |-> s]
    /\ commitOrder' = Present(IF CommittedUse(name, f) THEN Touch(commitOrder, k)
                              ELSE commitOrder, f.cache)
    /\ UNCHANGED <<removeCallback_, insertCallback_>>

\* The environment's choices, each offered only where the handler reaches it.
\* FailPoints: the invocation of the remove callback that raises, 0 for none.
FailPoints(f, maxSize, elasticity) ==
    IF removeCallback_
    THEN 0..Len(pruneDefined(f, maxSize, elasticity, TRUE, 0).cbLog)
    ELSE {0}

\* what the pass over an empty list does
JunkPoints(f, maxSize, elasticity, failAt) ==
    IF pruneDefined(f, maxSize, elasticity, removeCallback_, failAt).res = "EmptyList"
    THEN {[crash |-> TRUE, left |-> 0]} \cup {[crash |-> FALSE, left |-> n] : n \in 0..maxSize}
    ELSE {[crash |-> FALSE, left |-> 0]}

\* whether the insert callback raises
RaisePoints(p) == IF insertCallback_ /\ p.res = "ok" THEN BOOLEAN ELSE {FALSE}

\* what keys_.front() of an empty list does
DiePoints(p) == IF insertCallback_ /\ p.res = "ok" /\ p.keys = <<>> THEN BOOLEAN ELSE {FALSE}

Insert(K, V, W, cap) ==
    /\ health # "crashed"
    /\ \E k \in K, v \in V, s \in W :
        LET m == insertBody(k, v, s)
        IN  /\ m.cacheSize <= cap
            /\ \E failAt \in FailPoints(m, maxSize_, elasticity_) :
               \E junk \in JunkPoints(m, maxSize_, elasticity_, failAt) :
                LET p == prune(m, maxSize_, elasticity_, removeCallback_, failAt, junk)
                IN  \E raises \in RaisePoints(p), dies \in DiePoints(p) :
                        Return("insert", k, v, s, insert(k, v, s, failAt, raises, junk, dies))
    /\ UNCHANGED <<maxSize_, elasticity_>>

UpdateSize(L, E) ==
    /\ health # "crashed"
    /\ \E maxSize \in L, elasticity \in E :
       \E failAt \in FailPoints(Frame(keys_, cache_, cacheSize_), maxSize, elasticity) :
       \E junk \in JunkPoints(Frame(keys_, cache_, cacheSize_), maxSize, elasticity, failAt) :
            /\ maxSize_' = maxSize
            /\ elasticity_' = elasticity
            /\ Return("updateSize", 0, 0, 0, updateSize(maxSize, elasticity, failAt, junk))

Get(K) ==
    /\ health # "crashed"
    /\ \E k \in K : Return("get", k, 0, 0, get(k))
    /\ UNCHANGED <<maxSize_, elasticity_>>

\* Value getCopy(k) returns get(k)
GetCopy(K) ==
    /\ health # "crashed"
    /\ \E k \in K : Return("getCopy", k, 0, 0, get(k))
    /\ UNCHANGED <<maxSize_, elasticity_>>

GetCopyInto(K) ==
    /\ health # "crashed"
    /\ \E k \in K : Return("getCopyInto", k, 0, 0, getCopyInto(k))
    /\ UNCHANGED <<maxSize_, elasticity_>>

Remove(K) ==
    /\ health # "crashed"
    /\ \E k \in K, raises \in (IF removeCallback_ THEN BOOLEAN ELSE {FALSE}) :
            Return("remove", k, 0, 0, remove(k, raises))
    /\ UNCHANGED <<maxSize_, elasticity_>>

Contains(K) ==
    /\ health # "crashed"
    /\ \E k \in K : Return("contains", k, 0, 0, contains(k))
    /\ UNCHANGED <<maxSize_, elasticity_>>

Clear ==
    /\ health # "crashed"
    /\ Return("clear", 0, 0, 0, clear)
    /\ UNCHANGED <<maxSize_, elasticity_>>

\* LRUCache(maxSize, elasticity, insertCallback, removeCallback, ...)
Construct(L, E, CB) ==
    /\ keys_ = <<>>
    /\ cache_ = NoKeys
    /\ maxSize_ \in L
    /\ elasticity_ \in E
    /\ cacheSize_ = 0
    /\ \E cb \in CB : insertCallback_ = cb[1] /\ removeCallback_ = cb[2]
    /\ health = "ok"
    /\ op = [name |-> "construct", key |-> 0, value |-> 0, size |-> 0]
    /\ result = "ok"
    /\ evicted = <<>>
    /\ cbLog = <<>>
    /\ ranPastEnd = FALSE
    /\ commitOrder = <<>>

\* the callbacks a cache is constructed with: <<insertCallback, removeCallback>>
CallbackConfigs == {<<FALSE, FALSE>>, <<TRUE, TRUE>>}

\* a thread between two operations: left operations to go, total the weight
\* its inserts have added so far
Idle(left, total) ==
    [pc |-> "idle", left |-> left, total |-> total,
     k |-> 0, s |-> 0, elasticity |-> 0, tmp |-> 0]

\* no thread is inside the cache and the lock is free
NoThreads ==
    /\ lock_ = 0
    /\ threads = [t \in Threads |-> Idle(OpsPerThread, 0)]

Init == Construct(Limits, Slacks, CallbackConfigs) /\ trace = <<>> /\ NoThreads

Next ==
    \/ trace = <<>> /\ Insert(Keys, Values, Weights, MaxTotal) /\ UNCHANGED <<trace, lock_, threads>>
    \/ trace = <<>> /\ UpdateSize(Limits, Slacks) /\ UNCHANGED <<trace, lock_, threads>>
    \/ trace = <<>> /\ Get(Keys) /\ UNCHANGED <<trace, lock_, threads>>
    \/ trace = <<>> /\ GetCopy(Keys) /\ UNCHANGED <<trace, lock_, threads>>
    \/ trace = <<>> /\ GetCopyInto(Keys) /\ UNCHANGED <<trace, lock_, threads>>
    \/ trace = <<>> /\ Remove(Keys) /\ UNCHANGED <<trace, lock_, threads>>
    \/ trace = <<>> /\ Contains(Keys) /\ UNCHANGED <<trace, lock_, threads>>
    \/ trace = <<>> /\ Clear /\ UNCHANGED <<trace, lock_, threads>>

Spec == Init /\ [][Next]_vars

\* ------------------------------------------------------- the scripted runs
\* Runs of inserts only, on the two caches of the worked examples, with the
\* calls recorded: softLimit 3 with unit weights over five keys, and
\* softLimit 10 with weights 4 and 5 over three keys; slack 0, no callbacks.
MaxTrace == 5

TraceCall(k, s) == [key |-> k, size |-> s]

ScriptKeys == IF maxSize_ = 3 THEN 1..5 ELSE 1..3

ScriptWeights == IF maxSize_ = 3 THEN {1} ELSE {4, 5}

ScenarioInit ==
    /\ Construct({3, 10}, {0}, {<<FALSE, FALSE>>})
    /\ trace = <<TraceCall(0, 0)>>
    /\ NoThreads

ScenarioInsert ==
    /\ trace # <<>>
    /\ Len(trace) <= MaxTrace
    /\ \E k \in ScriptKeys, s \in ScriptWeights :
        /\ Insert({k}, {1}, {s}, Modulus)
        /\ trace' = Append(trace, TraceCall(k, s))
    /\ UNCHANGED <<lock_, threads>>

ScenarioNext == ScenarioInsert

Scenario == ScenarioInit /\ [][ScenarioNext]_vars

\* the general runs and the scripted runs together
BothInit == Init \/ ScenarioInit

BothNext == Next \/ ScenarioNext

Both == BothInit /\ [][BothNext]_vars

\* ------------------------------------------------------------ the threads
\* LRUCache<Key, Value, std::mutex>: the operations of NumThreads threads on
\* one cache, a statement at a time.  Each thread runs OpsPerThread
\* operations; its inserts are of keys no other insert uses.
WorkerLimit == NumThreads * OpsPerThread * MaxWeight + 1

WorkerKey(t, left) == (t - 1) * OpsPerThread + (OpsPerThread - left) + 1

\* mutant: Lock = NullLock, whose lock() takes nothing
mutexFree_NullLock(l) == TRUE

\* std::mutex::lock() goes through when no thread holds the mutex
mutexFree(l) == l = 0

Inside(t) == threads[t].pc # "idle"

Running(t) == health # "crashed" /\ threads[t].left > 0

StepOf(t, r) ==
    /\ threads' = [threads EXCEPT ![t] = r]
    /\ UNCHANGED <<health, op, result, evicted, cbLog, ranPastEnd, commitOrder,
                   trace, removeCallback_, insertCallback_>>

Done(t) ==
    threads' = [threads EXCEPT ![t] = Idle(threads[t].left - 1, threads[t].total)]

\* insert(): Guard g(lock_)
InsertLock(t) ==
    /\ Running(t)
    /\ threads[t].pc = "idle"
    /\ mutexFree(lock_)
    /\ lock_' = t
    /\ \E s \in Weights :
        StepOf(t, [threads[t] EXCEPT !.pc = "locked", !.s = s,
                                     !.k = WorkerKey(t, threads[t].left)])
    /\ UNCHANGED <<keys_, cache_, cacheSize_, maxSize_, elasticity_>>

\* insert(): the find, the size check and the change of the list, with
\* cacheSize_ + s computed and not yet stored
InsertLink(t) ==
    /\ Running(t)
    /\ threads[t].pc = "locked"
    /\ LET m == insertBody(threads[t].k, 1, threads[t].s)
       IN  IF m.res = "TooLargeSize"
           THEN /\ Return("insert", threads[t].k, 1, threads[t].s, m)
                /\ lock_' = 0
                /\ Done(t)
                /\ UNCHANGED <<maxSize_, elasticity_, trace>>
           ELSE /\ keys_' = m.keys
                /\ StepOf(t, [threads[t] EXCEPT !.pc = "linked", !.tmp = m.cacheSize])
                /\ UNCHANGED <<cache_, cacheSize_, maxSize_, elasticity_, lock_>>

\* insert(): the store of cacheSize_ and cache_[k] = keys_.begin()
InsertCount(t) ==
    /\ Running(t)
    /\ threads[t].pc = "linked"
    /\ cacheSize_' = threads[t].tmp
    /\ cache_' = [x \in DOMAIN cache_ \cup {threads[t].k} |->
                    IF x = threads[t].k THEN threads[t].k ELSE cache_[x]]
    /\ StepOf(t, [threads[t] EXCEPT !.pc = "counted"])
    /\ UNCHANGED <<keys_, maxSize_, elasticity_, lock_>>

\* insert(): prune(), the insert callback, and the guard's release
InsertFinish(t) ==
    /\ Running(t)
    /\ threads[t].pc = "counted"
    /\ LET m == Frame(keys_, cache_, cacheSize_)
       IN  \E failAt \in FailPoints(m, maxSize_, elasticity_) :
           \E junk \in JunkPoints(m, maxSize_, elasticity_, failAt) :
             LET p == prune(m, maxSize_, elasticity_, removeCallback_, failAt, junk)
             IN  \E raises \in RaisePoints(p), dies \in DiePoints(p) :
                   Return("insert", threads[t].k, 1, threads[t].s,
                          IF p.res # "ok" THEN p ELSE insertCallback(p, raises, dies))
    /\ lock_' = 0
    /\ threads' = [threads EXCEPT
                    ![t] = Idle(threads[t].left - 1, threads[t].total + threads[t].s)]
    /\ UNCHANGED <<maxSize_, elasticity_, trace>>

\* updateSize(): maxSize_ = maxSize, with no guard taken
UpdateSizeMax(t, L, E) ==
    /\ Running(t)
    /\ threads[t].pc = "idle"
    /\ \E maxSize \in L, elasticity \in E :
        /\ maxSize_' = maxSize
        /\ StepOf(t, [threads[t] EXCEPT !.pc = "maxStored", !.elasticity = elasticity])
    /\ UNCHANGED <<keys_, cache_, cacheSize_, elasticity_, lock_>>

\* updateSize(): elasticity_ = elasticity
UpdateSizeElasticity(t) ==
    /\ Running(t)
    /\ threads[t].pc = "maxStored"
    /\ elasticity_' = threads[t].elasticity
    /\ StepOf(t, [threads[t] EXCEPT !.pc = "limitsStored"])
    /\ UNCHANGED <<keys_, cache_, cacheSize_, maxSize_, lock_>>

\* updateSize(): prune()
UpdateSizePrune(t) ==
    /\ Running(t)
    /\ threads[t].pc = "limitsStored"
    /\ LET m == Frame(keys_, cache_, cacheSize_)
       IN  \E failAt \in FailPoints(m, maxSize_, elasticity_) :
           \E junk \in JunkPoints(m, maxSize_, elasticity_, failAt) :
             Return("updateSize", 0, 0, 0,
                    prune(m, maxSize_, elasticity_, removeCallback_, failAt, junk))
    /\ Done(t)
    /\ UNCHANGED <<maxSize_, elasticity_, lock_, trace>>

\* getMaxAllowedSize(): the read of maxSize_, with no guard taken
GetMaxAllowedSizeMax(t) ==
    /\ Running(t)
    /\ threads[t].pc = "idle"
    /\ StepOf(t, [threads[t] EXCEPT !.pc = "maxLoaded", !.tmp = maxSize_])
    /\ UNCHANGED <<keys_, cache_, cacheSize_, maxSize_, elasticity_, lock_>>

\* getMaxAllowedSize(): the read of elasticity_ and the return of the sum
GetMaxAllowedSizeSum(t) ==
    /\ Running(t)
    /\ threads[t].pc = "maxLoaded"
    /\ Return("getMaxAllowedSize", 0, 0, Add(threads[t].tmp, elasticity_),
              Frame(keys_, cache_, cacheSize_))
    /\ Done(t)
    /\ UNCHANGED <<maxSize_, elasticity_, lock_, trace>>

\* two threads inside the cache, one of them without the lock, one of them
\* writing: a data race
Writes(t) == threads[t].pc \in {"locked", "linked", "counted", "maxStored", "limitsStored"}

Races(t, u) ==
    /\ t # u
    /\ Inside(t)
    /\ Inside(u)
    /\ lock_ # t
    /\ Writes(t) \/ Writes(u)

\* a data race may also end the process, besides every interleaving of the
\* two threads' statements
DataRace ==
    /\ health # "crashed"
    /\ \E t, u \in Threads : Races(t, u)
    /\ health' = "crashed"
    /\ result' = "crashed"
    /\ UNCHANGED <<keys_, cache_, maxSize_, elasticity_, cacheSize_, removeCallback_,
                   insertCallback_, op, evicted, cbLog, ranPastEnd, lock_, threads,
                   commitOrder, trace>>

\* the workers of testWithLock: inserts only, on a cache that holds them all
WorkersInit ==
    /\ Construct({WorkerLimit}, Slacks, {<<FALSE, FALSE>>})
    /\ trace = <<>>
    /\ NoThreads

WorkersNext ==
    \/ \E t \in Threads : InsertLock(t)
    \/ \E t \in Threads : InsertLink(t)
    \/ \E t \in Threads : InsertCount(t)
    \/ \E t \in Threads : InsertFinish(t)

Workers == WorkersInit /\ [][WorkersNext]_vars

\* the workers, with threads that also call updateSize and getMaxAllowedSize
RacingInit ==
    /\ Construct({1, WorkerLimit}, Slacks, {<<FALSE, FALSE>>})
    /\ trace = <<>>
    /\ NoThreads

RacingNext ==
    \/ WorkersNext
    \/ \E t \in Threads : UpdateSizeMax(t, {1, WorkerLimit}, Slacks)
    \/ \E t \in Threads : UpdateSizeElasticity(t)
    \/ \E t \in Threads : UpdateSizePrune(t)
    \/ \E t \in Threads : GetMaxAllowedSizeMax(t)
    \/ \E t \in Threads : GetMaxAllowedSizeSum(t)
    \/ DataRace

Racing == RacingInit /\ [][RacingNext]_vars

\* ================================================================ claims
Returned == health # "crashed"

Succeeded == Returned /\ result \in {"ok", "true", "false"}

RECURSIVE Reverse(_)
Reverse(l) == IF l = <<>> THEN <<>> ELSE Append(Reverse(Tail(l)), l[1])

\* the weight of key k's entry in list l, 0 when l has none
WeightOf(l, k) ==
    IF k \in KeySet(l) THEN l[NodeAt(l, k)].size ELSE 0

OthersOf(l, k) == SelectSeq(l, LAMBDA e : e.key # k)

\* ---------------------------------------------------------------- C1
CapacityHolds == maxSize_ # 0 => size <= maxSize_ + elasticity_

\* C1: on a cache whose softLimit is non-zero, currentWeight is at most
\* softLimit + slack after every successful public operation: it is so after
\* construction, and every public operation that returns successfully from a
\* state where it is so leaves it so.
C1_CapacityInvariant ==
    /\ CapacityHolds
    /\ [][(CapacityHolds /\ Succeeded') => CapacityHolds']_vars

\* an updateSize that had to evict to get back under the new limits
C1_Witness ==
    /\ op.name = "updateSize"
    /\ Succeeded
    /\ health = "ok"
    /\ maxSize_ # 0
    /\ evicted # <<>>
    /\ keys_ # <<>>

\* ---------------------------------------------------------------- C2
\* C2: after every public operation, currentWeight as reported by size() is
\* exactly the sum of the weights of the entries present.
C2_WeightAccounting == Returned => size = SumSizes(keys_)

\* ---------------------------------------------------------------- C3
\* the list order the step should produce when a use of k moves k to the
\* front and nothing else reorders the keys that stay
OrderAfter(used) ==
    Present(IF used THEN Touch(KeySeq(keys_), op'.key) ELSE KeySeq(keys_), cache_')

\* C3 as stated: the list is ordered by most recent use, a use being a
\* successful insert, get or getCopy; so a step that is no successful use
\* leaves the order of the keys that stay as it was.
C3_OrderBySuccessfulUse ==
    [][Returned' =>
        KeySeq(keys_') =
            OrderAfter(op'.name \in Fetches \cup {"insert"} /\ result' \in {"ok", "true"})]_vars

\* C3 as amended: after any sequence of operations the recency list lists the
\* present keys by most recent use, most recent first, a use being an insert
\* that got past its TooLargeSize check (also one that then fails with
\* CallBackFailed), or a get or getCopy that found the key.
C3_RecencyOrder == Returned => KeySeq(keys_) = commitOrder

\* an insert that failed in a callback and still moved its key to the head
C3_Witness ==
    /\ op.name = "insert"
    /\ result = "CallBackFailed"
    /\ health = "ok"
    /\ Len(keys_) >= 2
    /\ keys_[1].key = op.key
    /\ commitOrder[1] = op.key

\* ---------------------------------------------------------------- C4
\* the list and the counter as they are when the eviction pass starts
ListBeforePrune ==
    IF op'.name = "insert"
    THEN <<KeyValuePair(op'.key, op'.value, op'.size)>> \o OthersOf(keys_, op'.key)
    ELSE keys_

WeightBeforePrune ==
    IF op'.name = "insert"
    THEN cacheSize_ + op'.size - WeightOf(keys_, op'.key)
    ELSE cacheSize_

EvictsSuffix ==
    LET l == ListBeforePrune
        n == Len(evicted')
    IN  /\ n <= Len(l)
        /\ keys_' = SubSeq(l, 1, Len(l) - n)
        /\ evicted' = Reverse(SubSeq(l, Len(l) - n + 1, Len(l)))
        /\ \A j \in 1..n :
            WeightBeforePrune - SumSizes(SubSeq(evicted', 1, j - 1)) > maxSize_'
        /\ size' <= maxSize_'
        /\ health' = "ok" => size' = WeightBeforePrune - SumSizes(evicted')

C4_Example ==
    (trace = <<TraceCall(0, 0), TraceCall(1, 5), TraceCall(2, 5), TraceCall(3, 4)>>
        /\ maxSize_ = 10)
    => /\ KeySeq(keys_) = <<3, 2>>
       /\ KeySeq(evicted) = <<1>>
       /\ size = 9
       /\ SumSizes(keys_) = 9

\* C4: when an insert or an updateSize evicts and no callback fails, the
\* evicted entries are the tail of the recency list, taken tail first; each is
\* evicted while currentWeight is above softLimit and the pass ends with
\* currentWeight <= softLimit.  With softLimit 10 and slack 0, inserting
\* a (5), b (5), c (4) leaves b and c with total weight 9.
C4_EvictionVictims ==
    /\ []C4_Example
    /\ [][(/\ op'.name \in {"insert", "updateSize"}
           /\ Returned'
           /\ result' # "CallBackFailed"
           /\ evicted' # <<>>) => EvictsSuffix]_vars

\* an insert that evicted two entries and kept others
C4_Witness ==
    /\ op.name = "insert"
    /\ result = "ok"
    /\ health = "ok"
    /\ Len(evicted) >= 2
    /\ Len(keys_) >= 1

\* ---------------------------------------------------------------- C5
UnitRun(ks) ==
    /\ maxSize_ = 3
    /\ elasticity_ = 0
    /\ trace = <<TraceCall(0, 0)>> \o [i \in 1..Len(ks) |-> TraceCall(ks[i], 1)]

\* C5 as stated: after the inserts of A, B, C, D the insert of E evicts
\* exactly A and leaves B, C, D, E.
C5_EvictsA ==
    UnitRun(<<1, 2, 3, 4, 5>>) =>
        KeySeq(evicted) = <<1>> /\ KeySet(keys_) = {2, 3, 4, 5}

\* C5 as amended: with softLimit 3 and slack 0 the insert of D already evicts
\* A, and the insert of E evicts exactly B, leaving C, D, E.
C5_EvictsB ==
    /\ UnitRun(<<1, 2, 3, 4>>) =>
        KeySeq(evicted) = <<1>> /\ KeySeq(keys_) = <<4, 3, 2>> /\ size = 3
    /\ UnitRun(<<1, 2, 3, 4, 5>>) =>
        KeySeq(evicted) = <<2>> /\ KeySeq(keys_) = <<5, 4, 3>> /\ size = 3

C5_Witness == UnitRun(<<1, 2, 3, 4, 5>>) /\ result = "ok" /\ op.key = 5

C7_FittingInsertAccepted ==
    (op.name = "insert" /\ maxSize_ # 0 /\ op.size <= maxSize_ + elasticity_)
        => result # "TooLargeSize"

\* ---------------------------------------------------------------- C8
\* C8: an insert of a present key whose new weight is no larger than the old
\* one, or whose growth fits the free capacity, succeeds; when it returns
\* without a callback failing the key is at the head with the new value and
\* weight (unless evicted), and currentWeight before eviction is the old
\* one plus newWeight - previousWeight.
C8_UpdateInPlace ==
    [][(/\ op'.name = "insert"
        /\ op'.key \in DOMAIN cache_
        /\ Returned'
        /\ \/ op'.size <= WeightOf(keys_, op'.key)
           \/ cacheSize_ + op'.size - WeightOf(keys_, op'.key) <= maxSize_ + elasticity_)
       => /\ result' # "TooLargeSize"
          /\ health' = "ok" =>
                size' + SumSizes(evicted') = cacheSize_ + op'.size - WeightOf(keys_, op'.key)
          /\ (health' = "ok" /\ keys_' # <<>>) =>
                keys_'[1] = KeyValuePair(op'.key, op'.value, op'.size)]_vars

\* ---------------------------------------------------------------- C9
\* C9: after clear(), size() is 0 and empty() is true, and no remove callback
\* was invoked.
C9_ClearResets ==
    op.name = "clear" => size = 0 /\ empty /\ keys_ = <<>> /\ cbLog = <<>>

\* ---------------------------------------------------------------- C10
\* C10: remove(k) of an absent key returns false, invokes no callback and
\* changes nothing; remove(k) of a present key, the remove callback absent or
\* succeeding, returns true, lowers currentWeight by that entry's weight,
\* leaves the other entries and their order as they were, and k is no longer
\* contained.
C10_Removal ==
    [][op'.name = "remove" =>
        IF op'.key \notin DOMAIN cache_
        THEN /\ result' = "false"
             /\ cbLog' = <<>>
             /\ keys_' = keys_
             /\ cache_' = cache_
             /\ cacheSize_' = cacheSize_
        ELSE result' # "CallBackFailed" =>
             /\ result' = "true"
             /\ cacheSize_' + WeightOf(keys_, op'.key) = cacheSize_
             /\ keys_' = OthersOf(keys_, op'.key)
             /\ DOMAIN cache_' = DOMAIN cache_ \ {op'.key}
             /\ op'.key \notin DOMAIN cache_']_vars

\* a removal, with the remove callback invoked, that left two entries
C10_Witness ==
    /\ op.name = "remove"
    /\ result = "true"
    /\ Len(keys_) = 2
    /\ op.key \notin DOMAIN cache_
    /\ removeCallback_
    /\ cbLog # <<>>

\* ---------------------------------------------------------------- C11
\* C11: when the remove callback raises during remove(k) on a present key,
\* the call fails with CallBackFailed and the cache is unchanged: k is still
\* present with the same value, weight and list position, and currentWeight
\* is not decremented.  Stated twice over: every remove that ends in
\* CallBackFailed was a remove of a present key, invoked the callback once on
\* that key's entry and left list, index and currentWeight as they were; and
\* in every reachable state a raising callback makes remove(k) of a present
\* key end so.
C11_RemoveAtomic ==
    /\ [][(op'.name = "remove" /\ result' = "CallBackFailed")
          => /\ removeCallback_
             /\ op'.key \in DOMAIN cache_
             /\ cbLog' = <<Call("remove", keys_[NodeAt(keys_, cache_[op'.key])])>>
             /\ keys_' = keys_
             /\ cache_' = cache_
             /\ cacheSize_' = cacheSize_
             /\ evicted' = <<>>
             /\ health' = "ok"]_vars
    /\ [](removeCallback_ =>
            \A k \in DOMAIN cache_ :
                LET f == remove(k, TRUE)
                IN  /\ f.res = "CallBackFailed"
                    /\ f.keys = keys_
                    /\ f.cache = cache_
                    /\ f.cacheSize = cacheSize_)

\* a failed remove of a key that is not at the head of a list of two or more
C11_Witness ==
    /\ op.name = "remove"
    /\ result = "CallBackFailed"
    /\ op.key \in DOMAIN cache_
    /\ Len(keys_) >= 2
    /\ keys_[1].key # op.key
    /\ cacheSize_ > 0

\* ---------------------------------------------------------------- C12
\* C12: with Lock = std::mutex every public operation, updateSize and the
\* reads getMaxSize, getElasticity and getMaxAllowedSize included, holds the
\* cache's lock for its whole duration, so no two public operations of
\* different threads are inside the cache at the same time: a thread inside
\* an operation holds the lock, and no second thread is inside with it.
C12_Serialized ==
    \A t \in Threads :
        Inside(t) =>
            /\ lock_ = t
            /\ \A u \in Threads \ {t} : ~Inside(u)

\* ---------------------------------------------------------------- C13
AllDone == \A t \in Threads : threads[t] = Idle(0, threads[t].total)

RECURSIVE SumTotals(_)
SumTotals(T) ==
    IF T = {} THEN 0
    ELSE LET t == CHOOSE x \in T : TRUE
         IN  threads[t].total + SumTotals(T \ {t})

\* C13: with Lock = std::mutex, NumThreads threads each performing
\* OpsPerThread inserts of pairwise distinct keys, interleaved arbitrarily,
\* on a cache large enough that nothing is evicted, end with exactly
\* NumThreads * OpsPerThread entries present, currentWeight equal to the sum
\* of all inserted weights, and every key of the index referring to an
\* existing list entry.
C13_NoLostUpdates ==
    AllDone =>
        /\ Cardinality(DOMAIN cache_) = NumThreads * OpsPerThread
        /\ Len(keys_) = NumThreads * OpsPerThread
        /\ cacheSize_ = SumTotals(Threads)
        /\ cacheSize_ = SumSizes(keys_)
        /\ \A k \in DOMAIN cache_ :
            \E i \in 1..Len(keys_) : keys_[i].key = cache_[k] /\ keys_[i].key = k

\* all threads are through, with inserts of two threads alternating in the list
C13_Witness ==
    /\ AllDone
    /\ Len(keys_) = NumThreads * OpsPerThread
    /\ cacheSize_ = NumThreads * OpsPerThread * MaxWeight
    /\ keys_[1].key = WorkerKey(1, 1)
    /\ keys_[2].key = WorkerKey(2, 1)

\* ---------------------------------------------------------------- C14
\* C14: while softLimit is 0 the cache is unbounded: every insert of a new
\* key succeeds whatever its weight and whatever the current total weight,
\* and no insert or updateSize evicts an entry.
C14_Unbounded ==
    [][/\ (/\ maxSize_ = 0
           /\ op'.name = "insert"
           /\ op'.key \notin DOMAIN cache_)
          => /\ result' # "TooLargeSize"
             /\ op'.key \in DOMAIN cache_'
       /\ (maxSize_' = 0 /\ op'.name \in {"insert", "updateSize"})
          => evicted' = <<>>]_vars

\* ---------------------------------------------------------------- C15
\* C15: contains(k), for a present or an absent key, changes nothing: the
\* recency order, the set of entries, their values and weights and
\* currentWeight are after the call what they were before it, so the call
\* does not protect a key from being the next eviction victim; it invokes no
\* callback and answers whether k is present.
C15_ContainsReadOnly ==
    [][op'.name = "contains"
       => /\ keys_' = keys_
          /\ cache_' = cache_
          /\ cacheSize_' = cacheSize_
          /\ maxSize_' = maxSize_
          /\ elasticity_' = elasticity_
          /\ cbLog' = <<>>
          /\ evicted' = <<>>
          /\ health' = "ok"
          /\ result' = (IF op'.key \in DOMAIN cache_ THEN "true" ELSE "false")]_vars

\* contains() of the key at the tail of a list of two or more: the key is
\* still the next eviction victim
C15_Witness ==
    /\ op.name = "contains"
    /\ result = "true"
    /\ Len(keys_) >= 2
    /\ keys_[Len(keys_)].key = op.key

\* ---------------------------------------------------------------- C16
\* C16: on a bounded cache an insert that brings currentWeight to a value not
\* above softLimit + slack (exactly softLimit + slack included) evicts no
\* entry; an insert evicts only when softLimit + slack is exceeded, and the
\* cache is then pruned back to at most softLimit.
C16_SlackDelaysEviction ==
    [][(/\ op'.name = "insert"
        /\ Returned'
        /\ result' # "TooLargeSize"
        /\ maxSize_ # 0)
       => /\ WeightBeforePrune <= maxSize_ + elasticity_ => evicted' = <<>>
          /\ (evicted' # <<>> /\ result' # "CallBackFailed") => size' <= maxSize_]_vars

\* ---------------------------------------------------------------- C17
\* C17: whenever the insert callback is invoked at the end of
\* insert(k, v, w), the recency list is non-empty and the entry passed to the
\* callback, the list head, has key k, value v and weight w; and after a
\* successful insert(k, v, w) the key k is at the most-recently-used
\* position.
C17_InsertedEntrySurvives ==
    (op.name = "insert" /\ Returned) =>
        /\ \A i \in 1..Len(cbLog) :
            cbLog[i].cb = "insert" =>
                /\ keys_ # <<>>
                /\ cbLog[i].entry = keys_[1]
                /\ cbLog[i].entry = KeyValuePair(op.key, op.value, op.size)
        /\ result = "ok" =>
            /\ keys_ # <<>>
            /\ keys_[1] = KeyValuePair(op.key, op.value, op.size)
            /\ op.key \in DOMAIN cache_

\* ---------------------------------------------------------------- C18
\* the last operation failed because the remove callback raised while the
\* eviction pass was running
EvictionFailed ==
    /\ op.name \in {"insert", "updateSize"}
    /\ result = "CallBackFailed"
    /\ cbLog # <<>>
    /\ cbLog[Len(cbLog)].cb = "remove"

\* C18: when the remove callback raises while an insert or an updateSize is
\* evicting, the operation fails with CallBackFailed; the entries evicted
\* before the failing one stay evicted with their weight subtracted; the
\* entry whose callback failed and all more recently used entries remain
\* present; the inserted or updated entry of the triggering insert stays
\* committed; and the insert callback is not invoked.
C18_EvictionNotTransactional ==
    [][EvictionFailed'
       => LET l == ListBeforePrune
              n == Len(evicted')
          IN  /\ health' = "ok"
              /\ n < Len(l)
              /\ evicted' = Reverse(SubSeq(l, Len(l) - n + 1, Len(l)))
              /\ keys_' = SubSeq(l, 1, Len(l) - n)
              /\ DOMAIN cache_' = KeySet(keys_')
              /\ cacheSize_' = WeightBeforePrune - SumSizes(evicted')
              /\ cbLog' = [i \in 1..(n + 1) |-> Call("remove", l[Len(l) - i + 1])]
              /\ op'.name = "insert" =>
                    /\ keys_'[1] = KeyValuePair(op'.key, op'.value, op'.size)
                    /\ op'.key \in DOMAIN cache_']_vars

\* an insert whose eviction pass took one entry and failed on the next, which
\* stays in the list behind the inserted entry
C18_Witness ==
    /\ EvictionFailed
    /\ op.name = "insert"
    /\ evicted # <<>>
    /\ Len(keys_) >= 2
    /\ keys_[1].key = op.key

\* ---------------------------------------------------------------- C19
\* C19: in every state reachable by any sequence of public operations, clear
\* followed by insert or updateSize included, each iteration of the eviction
\* loop finds a non-empty recency list: the pass never reads or pops the tail
\* of an empty list, and it evicts at most the entries the list held.
C19_PassStaysInList ==
    /\ ~ranPastEnd
    /\ op.name \in {"insert", "updateSize"} => Len(evicted) <= NumKeys

\* ---------------------------------------------------------------- C20
\* C20: after every public operation, whether it returns normally or fails
\* with KeyNotFound, TooLargeSize or CallBackFailed, the key index and the
\* recency list hold exactly the same set of keys, each key appears in the
\* list exactly once, and every index entry refers to the list entry carrying
\* that key.
C20_IndexAndListInStep ==
    Returned =>
        /\ DOMAIN cache_ = KeySet(keys_)
        /\ \A i, j \in 1..Len(keys_) : keys_[i].key = keys_[j].key => i = j
        /\ \A k \in DOMAIN cache_ :
            \E i \in 1..Len(keys_) : keys_[i].key = cache_[k] /\ keys_[i].key = k

\* an insert that failed after its eviction pass had taken an entry
C20_Witness ==
    /\ op.name = "insert"
    /\ result = "CallBackFailed"
    /\ evicted # <<>>
    /\ Len(keys_) >= 2
    /\ Cardinality(DOMAIN cache_) = Len(keys_)

====
